---- MODULE Spec2Model ----
(***************************************************************************)
(* Identity onboarding of the voting backend: registration, OTP            *)
(* verification, admin approval (a multi-document transaction) and         *)
(* rejection.  Every handler is split at the awaits where it touches the   *)
(* document store, so that requests of different callers interleave.       *)
(***************************************************************************)
EXTENDS Integers, Sequences, FiniteSets, Bags, TLC

(* ------------------------------ bounds -------------------------------- *)
MaxRecords == 2
MaxTime == 2
NumVoterIds == 2

(* -------------------------- program constants -------------------------- *)
\* the clock counts units of five minutes: 5 * 60 * 1000 ms is one unit
OtpTTL == 1
OtpMin == 100000
OtpMax == 999999

Procs == {1, 2}
Ids == 1..MaxRecords
VoterIds == 1..NumVoterIds
Emails == {"a@x.com", "b@x.com"}
Admin == {"admin@x.com"}
Reasons == {"", "incomplete documents"}
OtpCandidates == {OtpMin - 1, OtpMin, OtpMax - 1, OtpMax, OtpMax + 1}
Salts == {"salt10"}

(* ------------------------------ helpers -------------------------------- *)
Digit(d) ==
    CASE d = 0 -> "0" [] d = 1 -> "1" [] d = 2 -> "2" [] d = 3 -> "3"
      [] d = 4 -> "4" [] d = 5 -> "5" [] d = 6 -> "6" [] d = 7 -> "7"
      [] d = 8 -> "8" [] d = 9 -> "9"

RECURSIVE toString(_)
toString(n) == IF n < 10 THEN Digit(n) ELSE toString(n \div 10) \o Digit(n % 10)

randomInt(min, max) == {n \in OtpCandidates : min <= n /\ n < max}

bcryptHash(plain, salt) == <<"$2a$10$", salt, plain>>

bcryptCompare(plain, hash) == hash = bcryptHash(plain, hash[2])

SuppliedCodes == {"", "1"} \cup {toString(c) : c \in randomInt(OtpMin, OtpMax)}

(* ------------------------------- state --------------------------------- *)
VARIABLES approvals, users, nextId, now, req, out

vars == <<approvals, users, nextId, now, req, out>>

NoOtp == <<>>

NewApproval(email) ==
    [email |-> email, status |-> "Pending", isVerified |-> FALSE, otp |-> NoOtp]

NullDoc == [email |-> "", status |-> "", isVerified |-> FALSE, otp |-> NoOtp]

IdleReq ==
    [op |-> "none", pc |-> "idle", email |-> "", id |-> 0, otp |-> "",
     doc |-> NullDoc, voterId |-> 0, stale |-> FALSE, mailed |-> "none"]

NoOut == [op |-> "none", status |-> 0, message |-> "", voterId |-> 0, mailed |-> "none"]

Init ==
    /\ approvals = <<>>
    /\ users = EmptyBag
    /\ nextId = 1
    /\ now = 0
    /\ req = [p \in Procs |-> IdleReq]
    /\ out = NoOut

(* --------------------------- response plumbing -------------------------- *)
Error(msg) == [message |-> msg, statusCode |-> 0]

\* resStatus is the status the handler had set on the response (res.status(n),
\* 200 when it set none) before it threw; the middleware does not read it
ErrorMiddleware(err, resStatus) ==
    [status |-> IF err.statusCode # 0 THEN err.statusCode ELSE 500,
     message |-> err.message]

Json(status, msg) == [status |-> status, message |-> msg]

CanStart(p) == req[p].pc = "idle"

Begin(op) == [IdleReq EXCEPT !.op = op]

Respond(op, res, voterId, mailed) ==
    [op |-> op, status |-> res.status, message |-> res.message,
     voterId |-> voterId, mailed |-> mailed]

(* ------------------------------ the store ------------------------------- *)
FindByEmail(email) == {i \in DOMAIN approvals : approvals[i].email = email}

UserEmails == {u.email : u \in BagToSet(users)}

UserVoterIds == {u.voterId : u \in BagToSet(users)}

HoldsDoc(q, id) ==
    /\ req[q].op = "approve" /\ req[q].pc = "commit" /\ req[q].id = id
    /\ req[q].doc.status # "Accepted"

Locked(id) == \E q \in Procs : HoldsDoc(q, id)

MarkStale(rq, writer, id) ==
    [q \in Procs |->
        IF q # writer /\ rq[q].op = "approve" /\ rq[q].id = id
           /\ rq[q].pc \in {"generate", "saveUser", "savePending"}
        THEN [rq[q] EXCEPT !.stale = TRUE] ELSE rq[q]]

Done(p, rq, op, res, voterId, mailed) ==
    /\ req' = [rq EXCEPT ![p] = IdleReq]
    /\ out' = Respond(op, res, voterId, mailed)

Continue(p, r) ==
    /\ req' = [req EXCEPT ![p] = r]
    /\ out' = NoOut

Tick ==
    /\ now < MaxTime
    /\ now' = now + 1
    /\ out' = NoOut
    /\ UNCHANGED <<approvals, users, nextId, req>>

(* ------------------------------ OTP manager ----------------------------- *)
\* sendOtpToEmail that keeps the expiry of an OTP the record already holds
sendOtpToEmail_keepsExpiry(user, code, salt, t) ==
    [user EXCEPT !.otp = <<[code |-> bcryptHash(toString(code), salt),
                            expiresAt |-> IF user.otp # NoOtp THEN user.otp[1].expiresAt
                                          ELSE t + OtpTTL]>>]

sendOtpToEmail(user, code, salt, t) ==
    [user EXCEPT !.otp = <<[code |-> bcryptHash(toString(code), salt),
                            expiresAt |-> t + OtpTTL]>>]

\* verifyOTP with the bypass tested only after the stored-OTP check
verifyOTP_bypassLate(user, OTP, t) ==
    IF user.otp = NoOtp
    THEN [error |-> "No OTP pending for this user", saved |-> FALSE, user |-> user]
    ELSE IF OTP = "1"
    THEN [error |-> "", saved |-> TRUE,
          user |-> [user EXCEPT !.isVerified = TRUE, !.otp = NoOtp]]
    ELSE IF t > user.otp[1].expiresAt
    THEN [error |-> "OTP expired", saved |-> FALSE, user |-> user]
    ELSE IF ~bcryptCompare(OTP, user.otp[1].code)
    THEN [error |-> "OTP incorrect", saved |-> FALSE, user |-> user]
    ELSE [error |-> "", saved |-> TRUE,
          user |-> [user EXCEPT !.isVerified = TRUE, !.otp = NoOtp]]

\* verifyOTP with the hash comparison made before the expiry test
verifyOTP_compareFirst(user, OTP, t) ==
    IF OTP = "1"
    THEN [error |-> "", saved |-> TRUE,
          user |-> [user EXCEPT !.isVerified = TRUE, !.otp = NoOtp]]
    ELSE IF user.otp = NoOtp
    THEN [error |-> "No OTP pending for this user", saved |-> FALSE, user |-> user]
    ELSE IF ~bcryptCompare(OTP, user.otp[1].code)
    THEN [error |-> "OTP incorrect", saved |-> FALSE, user |-> user]
    ELSE IF t > user.otp[1].expiresAt
    THEN [error |-> "OTP expired", saved |-> FALSE, user |-> user]
    ELSE [error |-> "", saved |-> TRUE,
          user |-> [user EXCEPT !.isVerified = TRUE, !.otp = NoOtp]]

\* verifyOTP without the throw on a failed comparison
verifyOTP_noMismatchThrow(user, OTP, t) ==
    IF OTP = "1"
    THEN [error |-> "", saved |-> TRUE,
          user |-> [user EXCEPT !.isVerified = TRUE, !.otp = NoOtp]]
    ELSE IF user.otp = NoOtp
    THEN [error |-> "No OTP pending for this user", saved |-> FALSE, user |-> user]
    ELSE IF t > user.otp[1].expiresAt
    THEN [error |-> "OTP expired", saved |-> FALSE, user |-> user]
    ELSE [error |-> "", saved |-> TRUE,
          user |-> [user EXCEPT !.isVerified = TRUE, !.otp = NoOtp]]

verifyOTP(user, OTP, t) ==
    IF OTP = "1"
    THEN [error |-> "", saved |-> TRUE,
          user |-> [user EXCEPT !.isVerified = TRUE, !.otp = NoOtp]]
    ELSE IF user.otp = NoOtp
    THEN [error |-> "No OTP pending for this user", saved |-> FALSE, user |-> user]
    ELSE IF t > user.otp[1].expiresAt
    THEN [error |-> "OTP expired", saved |-> FALSE, user |-> user]
    ELSE IF ~bcryptCompare(OTP, user.otp[1].code)
    THEN [error |-> "OTP incorrect", saved |-> FALSE, user |-> user]
    ELSE [error |-> "", saved |-> TRUE,
          user |-> [user EXCEPT !.isVerified = TRUE, !.otp = NoOtp]]

\* checkOtp that clears the OTP it accepted, as verifyOTP does
checkOtp_clearsOtp(user, otp, t) ==
    IF otp = "1"
    THEN [error |-> "", result |-> TRUE, user |-> user]
    ELSE IF user.otp = NoOtp
    THEN [error |-> "No OTP pending for this user", result |-> FALSE, user |-> user]
    ELSE IF t > user.otp[1].expiresAt
    THEN [error |-> "OTP expired", result |-> FALSE, user |-> user]
    ELSE IF ~bcryptCompare(otp, user.otp[1].code)
    THEN [error |-> "", result |-> FALSE, user |-> user]
    ELSE [error |-> "", result |-> TRUE, user |-> [user EXCEPT !.otp = NoOtp]]

checkOtp(user, otp, t) ==
    IF otp = "1"
    THEN [error |-> "", result |-> TRUE, user |-> user]
    ELSE IF user.otp = NoOtp
    THEN [error |-> "No OTP pending for this user", result |-> FALSE, user |-> user]
    ELSE IF t > user.otp[1].expiresAt
    THEN [error |-> "OTP expired", result |-> FALSE, user |-> user]
    ELSE IF ~bcryptCompare(otp, user.otp[1].code)
    THEN [error |-> "", result |-> FALSE, user |-> user]
    ELSE [error |-> "", result |-> TRUE, user |-> user]

(* ------------------------------ registerUser ---------------------------- *)
registerUser_check(p, email) ==
    /\ CanStart(p)
    /\ nextId + Cardinality({q \in Procs : req[q].pc = "reg_save"}) <= MaxRecords
    /\ LET existingUser == email \in UserEmails \/ email \in Admin
       IN IF existingUser
          THEN Done(p, req, "register", Json(400, "Email already exists"), 0, "none")
          ELSE Continue(p, [Begin("register") EXCEPT !.email = email, !.pc = "reg_save"])
    /\ UNCHANGED <<approvals, users, nextId, now>>

\* the unique index on the email of the Approval collection
EmailTaken(email) == FindByEmail(email) # {}

registerUser_save(p) ==
    /\ req[p].op = "register" /\ req[p].pc = "reg_save"
    /\ IF EmailTaken(req[p].email)
       THEN /\ Done(p, req, "register", ErrorMiddleware(Error("E11000 duplicate key"), 200), 0, "none")
            /\ UNCHANGED <<approvals, nextId>>
       ELSE /\ approvals' = approvals @@ (nextId :> NewApproval(req[p].email))
            /\ nextId' = nextId + 1
            /\ Continue(p, [req[p] EXCEPT !.id = nextId, !.pc = "reg_otp"])
    /\ UNCHANGED <<users, now>>

registerUser_sendOtp(p, code) ==
    /\ req[p].op = "register" /\ req[p].pc = "reg_otp"
    /\ ~Locked(req[p].id)
    /\ IF req[p].id \notin DOMAIN approvals
       THEN /\ Done(p, req, "register", ErrorMiddleware(Error("No document found for query"), 200), 0, "none")
            /\ UNCHANGED approvals
       ELSE \E salt \in Salts :
            /\ code \in randomInt(OtpMin, OtpMax)
            /\ approvals' = [approvals EXCEPT ![req[p].id].otp =
                               sendOtpToEmail(NewApproval(req[p].email), code, salt, now).otp]
            /\ Done(p, MarkStale(req, p, req[p].id), "register",
                    Json(201, "User registered, OTP sent"), 0, "none")
    /\ UNCHANGED <<users, nextId, now>>

(* ------------------------------ verifyUserOtp --------------------------- *)
verifyUserOtp_find(p, email, otp) ==
    /\ CanStart(p)
    /\ IF otp = ""
       THEN Done(p, req, "verify", ErrorMiddleware(Error("Email and OTP are required"), 400), 0, "none")
       ELSE IF FindByEmail(email) = {}
       THEN Done(p, req, "verify", ErrorMiddleware(Error("Pending user not found"), 404), 0, "none")
       ELSE \E i \in FindByEmail(email) :
              Continue(p, [Begin("verify") EXCEPT !.otp = otp, !.id = i,
                                                  !.doc = approvals[i], !.pc = "verify_otp"])
    /\ UNCHANGED <<approvals, users, nextId, now>>

verifyUserOtp_verifyOTP(p) ==
    /\ req[p].op = "verify" /\ req[p].pc = "verify_otp"
    /\ LET v == verifyOTP(req[p].doc, req[p].otp, now)
       IN IF ~v.saved
          THEN /\ Done(p, req, "verify", ErrorMiddleware(Error(v.error), 200), 0, "none")
               /\ UNCHANGED approvals
          ELSE /\ ~Locked(req[p].id)
               /\ IF req[p].id \notin DOMAIN approvals
                  THEN /\ Done(p, req, "verify",
                               ErrorMiddleware(Error("No document found for query"), 200), 0, "none")
                       /\ UNCHANGED approvals
                  ELSE /\ approvals' = [approvals EXCEPT
                                          ![req[p].id].isVerified = v.user.isVerified,
                                          ![req[p].id].otp = v.user.otp]
                       /\ Done(p, MarkStale(req, p, req[p].id), "verify",
                               Json(200, "OTP verified successfully, awaiting admin approval"),
                               0, "none")
    /\ UNCHANGED <<users, nextId, now>>

(* -------------------------------- resendOtp ----------------------------- *)
resendOtp_find(p, email) ==
    /\ CanStart(p)
    /\ IF FindByEmail(email) = {}
       THEN Done(p, req, "resend", ErrorMiddleware(Error("Pending user not found"), 404), 0, "none")
       ELSE \E i \in FindByEmail(email) :
              IF approvals[i].status # "Pending"
              THEN Done(p, req, "resend",
                        ErrorMiddleware(Error("User is not in pending status"), 400), 0, "none")
              ELSE IF approvals[i].isVerified
              THEN Done(p, req, "resend",
                        ErrorMiddleware(Error("User is already verified"), 400), 0, "none")
              ELSE Continue(p, [Begin("resend") EXCEPT !.id = i, !.doc = approvals[i],
                                                       !.pc = "resend_otp"])
    /\ UNCHANGED <<approvals, users, nextId, now>>

resendOtp_sendOtp(p, code) ==
    /\ req[p].op = "resend" /\ req[p].pc = "resend_otp"
    /\ ~Locked(req[p].id)
    /\ IF req[p].id \notin DOMAIN approvals
       THEN /\ Done(p, req, "resend", ErrorMiddleware(Error("No document found for query"), 200), 0, "none")
            /\ UNCHANGED approvals
       ELSE \E salt \in Salts :
            /\ code \in randomInt(OtpMin, OtpMax)
            /\ approvals' = [approvals EXCEPT ![req[p].id].otp =
                               sendOtpToEmail(req[p].doc, code, salt, now).otp]
            /\ Done(p, MarkStale(req, p, req[p].id), "resend",
                    Json(200, "New OTP sent to email"), 0, "none")
    /\ UNCHANGED <<users, nextId, now>>

(* ------------------------------- approveUser ---------------------------- *)
\* approvalId records which pending record the User was created from
NewUser(voterId, pendingUser, id) ==
    [voterId |-> voterId, email |-> pendingUser.email, approvalId |-> id]

approveUser_catch(err) == Json(500, "User approval failed")

generateVoterId == VoterIds \ UserVoterIds

\* a User collection without the unique index on voterId
VoterIdTaken_noIndex(p, v) == FALSE

VoterIdTaken(p, v) ==
    \/ v \in UserVoterIds
    \/ \E q \in Procs \ {p} :
          /\ req[q].op = "approve" /\ req[q].pc \in {"savePending", "commit"}
          /\ req[q].voterId = v

Abort(p, err) ==
    /\ Done(p, req, "approve", approveUser_catch(err), 0, "none")
    /\ UNCHANGED <<approvals, users>>

\* approveUser without the isVerified test
approveUser_find_unverified(p, id) ==
    /\ CanStart(p)
    /\ IF id \notin DOMAIN approvals
       THEN Done(p, req, "approve", Json(404, "Pending user not found"), 0, "none")
       ELSE Continue(p, [Begin("approve") EXCEPT !.id = id, !.doc = approvals[id],
                                                 !.pc = "generate"])
    /\ UNCHANGED <<approvals, users, nextId, now>>

approveUser_find(p, id) ==
    /\ CanStart(p)
    /\ IF id \notin DOMAIN approvals
       THEN Done(p, req, "approve", Json(404, "Pending user not found"), 0, "none")
       ELSE IF ~approvals[id].isVerified
       THEN Done(p, req, "approve", Json(400, "User has not verified their OTP"), 0, "none")
       ELSE Continue(p, [Begin("approve") EXCEPT !.id = id, !.doc = approvals[id],
                                                 !.pc = "generate"])
    /\ UNCHANGED <<approvals, users, nextId, now>>

approveUser_generate(p) ==
    /\ req[p].op = "approve" /\ req[p].pc = "generate"
    /\ \/ Abort(p, Error("CryptoProvisioningError"))
       \/ /\ generateVoterId = {}
          /\ Abort(p, Error("voter id generation failed"))
       \/ /\ \E v \in generateVoterId :
                Continue(p, [req[p] EXCEPT !.voterId = v, !.pc = "saveUser"])
          /\ UNCHANGED <<approvals, users>>
    /\ UNCHANGED <<nextId, now>>

approveUser_saveUser(p) ==
    /\ req[p].op = "approve" /\ req[p].pc = "saveUser"
    /\ \/ Abort(p, Error("User write failed"))
       \/ /\ VoterIdTaken(p, req[p].voterId)
          /\ Abort(p, Error("E11000 duplicate key"))
       \/ /\ ~VoterIdTaken(p, req[p].voterId)
          /\ Continue(p, [req[p] EXCEPT !.pc = "savePending"])
          /\ UNCHANGED <<approvals, users>>
    /\ UNCHANGED <<nextId, now>>

\* the pending-status write issued without the session
approveUser_savePending_noSession(p) ==
    /\ req[p].op = "approve" /\ req[p].pc = "savePending"
    /\ \/ Abort(p, Error("pending write failed"))
       \/ /\ req[p].id \in DOMAIN approvals
          /\ approvals' = [approvals EXCEPT ![req[p].id].status = "Accepted"]
          /\ Continue(p, [req[p] EXCEPT !.doc.status = "Accepted", !.pc = "commit"])
          /\ UNCHANGED users
    /\ UNCHANGED <<nextId, now>>

approveUser_savePending(p) ==
    /\ req[p].op = "approve" /\ req[p].pc = "savePending"
    /\ LET modified == req[p].doc.status # "Accepted"
           conflict == modified /\ (req[p].stale \/ Locked(req[p].id))
       IN \/ Abort(p, Error("pending write failed"))
          \/ /\ conflict
             /\ Abort(p, Error("WriteConflict"))
          \/ /\ ~conflict
             /\ Continue(p, [req[p] EXCEPT !.pc = "commit"])
             /\ UNCHANGED <<approvals, users>>
    /\ UNCHANGED <<nextId, now>>

approveUser_commit(p) ==
    /\ req[p].op = "approve" /\ req[p].pc = "commit"
    /\ \/ Abort(p, Error("commit failed"))
       \/ /\ users' = users (+) SetToBag({NewUser(req[p].voterId, req[p].doc, req[p].id)})
          /\ IF req[p].doc.status # "Accepted"
             THEN /\ approvals' = [approvals EXCEPT ![req[p].id].status = "Accepted"]
                  /\ req' = [MarkStale(req, p, req[p].id) EXCEPT ![p].pc = "notify"]
             ELSE /\ UNCHANGED approvals
                  /\ req' = [req EXCEPT ![p].pc = "notify"]
          /\ out' = NoOut
    /\ UNCHANGED <<nextId, now>>

\* the approval notification sent without its own try/catch
approveUser_notify_propagates(p) ==
    /\ req[p].op = "approve" /\ req[p].pc = "notify"
    /\ \/ Done(p, req, "approve", Json(200, "User approved and notified"),
               req[p].voterId, "sent")
       \/ Done(p, req, "approve", approveUser_catch(Error("Notification email failed")),
               0, "failed")
    /\ UNCHANGED <<approvals, users, nextId, now>>

approveUser_notify(p) ==
    /\ req[p].op = "approve" /\ req[p].pc = "notify"
    /\ \E sent \in BOOLEAN :
          Done(p, req, "approve", Json(200, "User approved and notified"),
               req[p].voterId, IF sent THEN "sent" ELSE "failed")
    /\ UNCHANGED <<approvals, users, nextId, now>>

(* -------------------------------- rejectUser ---------------------------- *)
\* rejectUser without the reason test
rejectUser_find_anyReason(p, id, reason) ==
    /\ CanStart(p)
    /\ IF id \notin DOMAIN approvals
       THEN Done(p, req, "reject", ErrorMiddleware(Error("Pending user not found"), 404), 0, "none")
       ELSE Continue(p, [Begin("reject") EXCEPT !.id = id, !.pc = "reject_notify"])
    /\ UNCHANGED <<approvals, users, nextId, now>>

\* rejectUser with the reason checked before the record is looked up
rejectUser_find_reasonFirst(p, id, reason) ==
    /\ CanStart(p)
    /\ IF reason = ""
       THEN Done(p, req, "reject", ErrorMiddleware(Error("Rejection reason is required"), 400), 0, "none")
       ELSE IF id \notin DOMAIN approvals
       THEN Done(p, req, "reject", ErrorMiddleware(Error("Pending user not found"), 404), 0, "none")
       ELSE Continue(p, [Begin("reject") EXCEPT !.id = id, !.pc = "reject_notify"])
    /\ UNCHANGED <<approvals, users, nextId, now>>

rejectUser_find(p, id, reason) ==
    /\ CanStart(p)
    /\ IF id \notin DOMAIN approvals
       THEN Done(p, req, "reject", ErrorMiddleware(Error("Pending user not found"), 404), 0, "none")
       ELSE IF reason = ""
       THEN Done(p, req, "reject", ErrorMiddleware(Error("Rejection reason is required"), 400), 0, "none")
       ELSE Continue(p, [Begin("reject") EXCEPT !.id = id, !.pc = "reject_notify"])
    /\ UNCHANGED <<approvals, users, nextId, now>>

\* the rejection notification made best-effort, as in approveUser
rejectUser_notify_swallowed(p) ==
    /\ req[p].op = "reject" /\ req[p].pc = "reject_notify"
    /\ \E sent \in BOOLEAN :
          Continue(p, [req[p] EXCEPT !.mailed = IF sent THEN "sent" ELSE "failed",
                                     !.pc = "reject_delete"])
    /\ UNCHANGED <<approvals, users, nextId, now>>

rejectUser_notify(p) ==
    /\ req[p].op = "reject" /\ req[p].pc = "reject_notify"
    /\ \/ Done(p, req, "reject", ErrorMiddleware(Error("Notification email failed"), 200), 0, "failed")
       \/ Continue(p, [req[p] EXCEPT !.mailed = "sent", !.pc = "reject_delete"])
    /\ UNCHANGED <<approvals, users, nextId, now>>

rejectUser_delete(p) ==
    /\ req[p].op = "reject" /\ req[p].pc = "reject_delete"
    /\ ~Locked(req[p].id)
    /\ approvals' = [i \in DOMAIN approvals \ {req[p].id} |-> approvals[i]]
    /\ Done(p, IF req[p].id \in DOMAIN approvals THEN MarkStale(req, p, req[p].id) ELSE req,
            "reject", Json(200, "User rejected, notified, and removed from database"),
            0, req[p].mailed)
    /\ UNCHANGED <<users, nextId, now>>

(* ---------------------------- the state machines ------------------------ *)
\* Approval workflow: registrations and verifications (with the bypass code)
\* are served one at a time; approvals and rejections of any records overlap
\* freely with each other.
Next ==
    \E p \in Procs :
       \/ \E email \in Emails \cup Admin :
             /\ \A q \in Procs \ {p} : req[q].pc = "idle"
             /\ registerUser_check(p, email)
       \/ registerUser_save(p)
       \/ registerUser_sendOtp(p, OtpMin)
       \/ \E email \in Emails :
             /\ \A q \in Procs \ {p} : req[q].pc = "idle"
             /\ verifyUserOtp_find(p, email, "1")
       \/ verifyUserOtp_verifyOTP(p)
       \/ \E id \in Ids :
             /\ \A q \in Procs : req[q].op \notin {"register", "verify"}
             /\ approveUser_find(p, id)
       \/ approveUser_generate(p)
       \/ approveUser_saveUser(p)
       \/ approveUser_savePending(p)
       \/ approveUser_commit(p)
       \/ approveUser_notify(p)
       \/ \E id \in Ids, reason \in Reasons :
             /\ \A q \in Procs : req[q].op \notin {"register", "verify"}
             /\ rejectUser_find(p, id, reason)
       \/ rejectUser_notify(p)
       \/ rejectUser_delete(p)

Spec == Init /\ [][Next]_vars

\* OTP life cycle of one registration: issue, resend and verification
\* requests of two callers interleave freely while the clock advances.
NextOtp ==
    \/ Tick
    \/ \E p \in Procs :
          \/ registerUser_check(p, "a@x.com")
          \/ registerUser_save(p)
          \/ \E code \in OtpCandidates : registerUser_sendOtp(p, code)
          \/ \E otp \in SuppliedCodes : verifyUserOtp_find(p, "a@x.com", otp)
          \/ verifyUserOtp_verifyOTP(p)
          \/ resendOtp_find(p, "a@x.com")
          \/ \E code \in OtpCandidates : resendOtp_sendOtp(p, code)

SpecOtp == Init /\ [][NextOtp]_vars

(* ------------------------------- properties ----------------------------- *)
HeldEmails == UserEmails \cup {approvals[i].email : i \in DOMAIN approvals}

UsersFrom(id) == {u \in BagToSet(users) : u.approvalId = id}

Expired(doc) == doc.otp # NoOtp /\ now > doc.otp[1].expiresAt

\* C1: approveUser is all-or-nothing.  No step of an approval other than its
\* commit changes either collection, so an approval that fails at any step
\* leaves no User and leaves the status Pending; the User record and the
\* status Accepted of a pending record appear together, in the commit step.
C1_Step ==
    /\ \A p \in Procs :
          ( /\ req[p].op = "approve"
            /\ req'[p].pc # req[p].pc
            /\ ~(req[p].pc = "commit" /\ req'[p].pc = "notify") )
          => (users' = users /\ approvals' = approvals)
    /\ users' # users =>
          \E p \in Procs :
             /\ req[p].pc = "commit" /\ req'[p].pc = "notify"
             /\ users' = users (+) SetToBag({NewUser(req[p].voterId, req[p].doc, req[p].id)})
             /\ req[p].doc.status = "Pending" =>
                   /\ req[p].id \in DOMAIN approvals
                   /\ approvals[req[p].id].status = "Pending"
                   /\ approvals' = [approvals EXCEPT ![req[p].id].status = "Accepted"]
    /\ \A id \in DOMAIN approvals \cap DOMAIN approvals' :
          (approvals[id].status # "Accepted" /\ approvals'[id].status = "Accepted")
          => \E u \in BagToSet(users') :
                /\ u.approvalId = id
                /\ users' = users (+) SetToBag({u})

C1_AllOrNothing == [][C1_Step]_vars

C1_Witness ==
    /\ out.op = "approve" /\ out.status = 500
    /\ \E id \in DOMAIN approvals :
          /\ approvals[id].isVerified
          /\ approvals[id].status = "Pending"
          /\ UsersFrom(id) = {}

\* C2: no two User records share a voterId, in every reachable state and so
\* for every interleaving of two approvals of different pending records.
C2_UniqueVoterIds ==
    \A u, w \in BagToSet(users) :
       /\ CopiesIn(u, users) = 1
       /\ u.voterId = w.voterId => u = w

C2_Witness ==
    /\ BagCardinality(users) = 2
    /\ \E u, w \in BagToSet(users) : u.approvalId # w.approvalId
    /\ \A p \in Procs : req[p].op = "approve" /\ req[p].pc = "notify"

\* C3: a registerUser call whose email is held by a record of either
\* collection fails with DuplicateEmail (400, "Email already exists") at
\* once, without creating a pending record.
C3_DuplicateEmailRejected ==
    [][\A p \in Procs, email \in Emails \cup Admin :
          (registerUser_check(p, email) /\ email \in HeldEmails)
          => /\ req'[p].pc = "idle"
             /\ out'.status = 400 /\ out'.message = "Email already exists"
             /\ approvals' = approvals]_vars

\* C4: at most one User record is ever created from one pending record.
C4_OneUserPerApproval ==
    \A u, w \in BagToSet(users) :
       /\ CopiesIn(u, users) = 1
       /\ u.approvalId = w.approvalId => u = w

\* C5: approveUser on an absent id answers 404 and on an unverified record
\* answers 400, in both cases ending the request with both collections
\* unchanged and no notification; every User record is created by a
\* transaction that read its pending record with isVerified = true.
C5_Step ==
    /\ \A p \in Procs, id \in Ids :
          approveUser_find(p, id) =>
             /\ id \notin DOMAIN approvals =>
                   /\ out'.status = 404 /\ out'.message = "Pending user not found"
                   /\ req'[p].pc = "idle" /\ out'.mailed = "none"
                   /\ users' = users /\ approvals' = approvals
             /\ (id \in DOMAIN approvals /\ ~approvals[id].isVerified) =>
                   /\ out'.status = 400 /\ out'.message = "User has not verified their OTP"
                   /\ req'[p].pc = "idle" /\ out'.mailed = "none"
                   /\ users' = users /\ approvals' = approvals
    /\ users' # users =>
          \E p \in Procs :
             /\ req[p].op = "approve" /\ req[p].pc = "commit"
             /\ req[p].doc.isVerified
             /\ users' = users (+) SetToBag({NewUser(req[p].voterId, req[p].doc, req[p].id)})

C5_OnlyVerifiedApproved == [][C5_Step]_vars

C5_Witness ==
    /\ out.op = "approve" /\ out.status = 400
    /\ \E id \in DOMAIN approvals : ~approvals[id].isVerified /\ UsersFrom(id) = {}
    /\ BagToSet(users) # {}

\* C6: the approval notification is attempted only after the commit, and
\* whether it succeeds or fails the committed state is kept (the User record
\* exists, the pending record is Accepted) and the response is the success
\* response carrying the new voter ID.
C6_Step ==
    /\ \A p \in Procs :
          approveUser_notify(p) =>
             /\ out'.status = 200 /\ out'.voterId = req[p].voterId
             /\ out'.mailed \in {"sent", "failed"}
             /\ users' = users /\ approvals' = approvals
             /\ \E u \in BagToSet(users) :
                   /\ u.voterId = req[p].voterId
                   /\ u.approvalId = req[p].id
             /\ req[p].id \in DOMAIN approvals => approvals[req[p].id].status = "Accepted"
    /\ (out'.op = "approve" /\ out'.status # 200) => out'.mailed = "none"

C6_NotificationAfterCommit == [][C6_Step]_vars

C6_Witness ==
    /\ out.op = "approve" /\ out.status = 200 /\ out.mailed = "failed"
    /\ \E u \in BagToSet(users) :
          /\ u.voterId = out.voterId
          /\ u.approvalId \in DOMAIN approvals
          /\ approvals[u.approvalId].status = "Accepted"

\* C7: rejectUser with an empty reason ends at once, for every id and every
\* record state, with the Approval collection unchanged and no notification.
C7_EmptyReasonKeepsRecord ==
    [][\A p \in Procs, id \in Ids :
          rejectUser_find(p, id, "")
          => /\ approvals' = approvals
             /\ req'[p].pc = "idle"
             /\ out'.op = "reject" /\ out'.status # 200 /\ out'.mailed = "none"]_vars

C7_Witness ==
    /\ out.op = "reject" /\ out.message = "Rejection reason is required"
    /\ out.mailed = "none"
    /\ \E id \in DOMAIN approvals : approvals[id].status = "Accepted"
    /\ \E id \in DOMAIN approvals : approvals[id].status = "Pending"

\* C8: in rejectUser the notification step deletes nothing, a failed send
\* ends the request with the error propagated, and a record leaves the
\* Approval collection only in the step of a rejection whose send succeeded.
C8_Step ==
    /\ \A p \in Procs :
          rejectUser_notify(p) =>
             /\ approvals' = approvals
             /\ req'[p].pc = "idle" =>
                   /\ out'.op = "reject" /\ out'.mailed = "failed"
                   /\ out'.status = 500 /\ out'.message = "Notification email failed"
             /\ req'[p].pc # "idle" => req'[p].mailed = "sent"
    /\ \A id \in DOMAIN approvals \ DOMAIN approvals' :
          \E p \in Procs :
             /\ req[p].op = "reject" /\ req[p].pc = "reject_delete" /\ req[p].id = id
             /\ req[p].mailed = "sent"
             /\ req'[p].pc = "idle"

C8_NotifyBeforeDelete == [][C8_Step]_vars

C8_Witness ==
    /\ out.op = "reject" /\ out.mailed = "failed" /\ out.status = 500
    /\ nextId = 2 /\ DOMAIN approvals = {1}

\* C9: with the bypass code "1" verifyOTP succeeds on every record, whatever
\* OTP it holds (none, expired, unexpired with another code): it sets
\* isVerified, clears otp and saves; checkOtp with "1" returns true.
C9_State ==
    \A doc \in {approvals[i] : i \in DOMAIN approvals}
                \cup {req[p].doc : p \in {q \in Procs : req[q].op = "verify"}} :
       /\ verifyOTP(doc, "1", now).saved
       /\ verifyOTP(doc, "1", now).error = ""
       /\ verifyOTP(doc, "1", now).user.isVerified
       /\ verifyOTP(doc, "1", now).user.otp = NoOtp
       /\ checkOtp(doc, "1", now).result
       /\ checkOtp(doc, "1", now).error = ""

C9_Step ==
    \A p \in Procs :
       (verifyUserOtp_verifyOTP(p) /\ req[p].otp = "1") =>
          /\ out'.op = "verify" /\ out'.status = 200
          /\ req[p].id \in DOMAIN approvals'
          /\ approvals'[req[p].id].isVerified
          /\ approvals'[req[p].id].otp = NoOtp

C9_BypassAlwaysVerifies == [](C9_State) /\ [][C9_Step]_vars

C9_Witness ==
    \E p \in Procs :
       /\ req[p].op = "verify" /\ req[p].pc = "verify_otp" /\ req[p].otp = "1"
       /\ Expired(req[p].doc)
       /\ ~bcryptCompare("1", req[p].doc.otp[1].code)
       /\ verifyOTP(req[p].doc, "1", now).user.isVerified
       /\ checkOtp(req[p].doc, "1", now).result

\* C10 as stated: every verifyOTP call made after expiresAt of the OTP it
\* was handed fails with "OTP expired" and writes nothing.
C10_ExpiredAlwaysFails ==
    [][\A p \in Procs :
          (verifyUserOtp_verifyOTP(p) /\ Expired(req[p].doc))
          => /\ out'.message = "OTP expired"
             /\ approvals' = approvals]_vars

\* C10 as amended: every verifyOTP call with a code other than the bypass
\* code "1" made after expiresAt fails with "OTP expired", whether or not
\* the code matches the stored hash, and writes nothing.
C10_ExpiredFailsUnlessBypass ==
    [][\A p \in Procs :
          (verifyUserOtp_verifyOTP(p) /\ Expired(req[p].doc) /\ req[p].otp # "1")
          => /\ out'.op = "verify" /\ out'.message = "OTP expired"
             /\ out'.status # 200
             /\ verifyOTP(req[p].doc, req[p].otp, now).user = req[p].doc
             /\ approvals' = approvals]_vars

C10_Witness ==
    /\ out.op = "verify" /\ out.message = "OTP expired"
    /\ \E i \in DOMAIN approvals :
          /\ ~approvals[i].isVerified
          /\ Expired(approvals[i])
          /\ \E code \in SuppliedCodes \ {"", "1"} :
                /\ bcryptCompare(code, approvals[i].otp[1].code)
                /\ verifyOTP(approvals[i], code, now).error = "OTP expired"

\* the documents the OTP manager can be handed: the stored records and the
\* copies loaded by the requests in flight
OtpDocs ==
    {approvals[i] : i \in DOMAIN approvals}
       \cup {req[p].doc : p \in {q \in Procs : req[q].op \in {"verify", "resend"}}}

\* C11: verifyOTP writes exactly when it succeeds. A call that fails with
\* "No OTP pending for this user", "OTP expired" or "OTP incorrect" leaves the
\* document and the stored record (isVerified, otp, status) unchanged and
\* saves nothing; every other call sets isVerified, clears otp and saves
\* these two fields only.
C11_Step ==
    \A p \in Procs :
       verifyUserOtp_verifyOTP(p) =>
          LET doc  == req[p].doc
              code == req[p].otp
              v    == verifyOTP(doc, code, now)
              fails == /\ code # "1"
                       /\ \/ doc.otp = NoOtp
                          \/ Expired(doc)
                          \/ ~bcryptCompare(code, doc.otp[1].code)
          IN /\ fails =>
                   /\ ~v.saved /\ v.user = doc
                   /\ approvals' = approvals
                   /\ out'.op = "verify" /\ out'.status # 200
                   /\ out'.message \in {"No OTP pending for this user",
                                        "OTP expired", "OTP incorrect"}
             /\ ~fails =>
                   /\ v.saved /\ v.error = ""
                   /\ v.user = [doc EXCEPT !.isVerified = TRUE, !.otp = NoOtp]
                   /\ req[p].id \in DOMAIN approvals =>
                         /\ approvals' = [approvals EXCEPT
                                            ![req[p].id].isVerified = TRUE,
                                            ![req[p].id].otp = NoOtp]
                         /\ out'.status = 200

C11_WritesOnlyOnSuccess == [][C11_Step]_vars

C11_Witness ==
    /\ out.op = "verify" /\ out.message = "OTP incorrect"
    /\ \E i \in DOMAIN approvals :
          /\ ~approvals[i].isVerified
          /\ approvals[i].otp # NoOtp /\ ~Expired(approvals[i])
          /\ approvals[i].status = "Pending"

\* C12: checkOtp leaves the document it is handed as it was on every outcome
\* (true, false, error), so a code it accepted is still accepted by a
\* verifyOTP call that follows on the same document.
C12_CheckOtpLeavesRecord ==
    \A doc \in OtpDocs, code \in SuppliedCodes :
       LET k == checkOtp(doc, code, now)
       IN /\ k.user = doc
          /\ k.error # "" => ~k.result
          /\ k.result =>
                /\ verifyOTP(k.user, code, now).saved
                /\ verifyOTP(k.user, code, now).error = ""

C12_Witness ==
    \E i \in DOMAIN approvals, code \in SuppliedCodes \ {"", "1"} :
       /\ ~approvals[i].isVerified
       /\ checkOtp(approvals[i], code, now).result
       /\ checkOtp(approvals[i], code, now).user.otp # NoOtp
       /\ verifyOTP(checkOtp(approvals[i], code, now).user, code, now).user.isVerified
       /\ \E other \in SuppliedCodes \ {"", "1"} : ~checkOtp(approvals[i], other, now).result

\* an approval transaction is in flight from its start to its commit or abort
InApprovalTxn(p) ==
    /\ req[p].op = "approve"
    /\ req[p].pc \in {"generate", "saveUser", "savePending", "commit"}

\* C13: in every state with no approval transaction in flight, no email is
\* held both by a record of the Approval collection and by a User.
C13_EmailExclusive ==
    (\A p \in Procs : ~InApprovalTxn(p))
       => {approvals[i].email : i \in DOMAIN approvals} \cap UserEmails = {}

\* C14: a record moves only along Pending(unverified) -> Pending(verified)
\* -> Accepted or Deleted.  It is deleted or accepted only when Pending and
\* verified, a verified record stays verified, an Accepted record stays in
\* the collection with status Accepted, a deleted id never comes back, and a
\* User is created only in the step that takes a Pending(verified) record to
\* Accepted.
C14_Step ==
    /\ \A id \in DOMAIN approvals :
          LET before == approvals[id]
              verifiedPending == before.status = "Pending" /\ before.isVerified
          IN /\ id \notin DOMAIN approvals' => verifiedPending
             /\ id \in DOMAIN approvals' =>
                   /\ before.status = "Accepted" => approvals'[id].status = "Accepted"
                   /\ approvals'[id].status # before.status =>
                         verifiedPending /\ approvals'[id].status = "Accepted"
                   /\ before.isVerified => approvals'[id].isVerified
    /\ \A id \in (1..(nextId - 1)) \ DOMAIN approvals : id \notin DOMAIN approvals'
    /\ users' # users =>
          \E id \in DOMAIN approvals \cap DOMAIN approvals' :
             /\ approvals[id].status = "Pending" /\ approvals[id].isVerified
             /\ approvals'[id].status = "Accepted"

C14_RecordLifecycle == [][C14_Step]_vars

\* C15: resendOtp on a record that is already verified, or whose status is
\* not Pending, ends at once with status 400 and issues no OTP: the Approval
\* collection is unchanged.
C15_ResendRefusedWith400 ==
    [][\A p \in Procs, email \in Emails :
          (/\ resendOtp_find(p, email)
           /\ \E i \in FindByEmail(email) :
                 approvals[i].isVerified \/ approvals[i].status # "Pending")
          => /\ req'[p].pc = "idle"
             /\ approvals' = approvals
             /\ out'.op = "resend" /\ out'.status = 400]_vars

\* C16: the final response of verifyUserOtp has status 200 when verifyOTP
\* succeeds, 404 when no pending record has the email, and a status of the
\* 400 class when verifyOTP fails.
C16_Step ==
    /\ \A p \in Procs, email \in Emails, otp \in SuppliedCodes \ {""} :
          (verifyUserOtp_find(p, email, otp) /\ FindByEmail(email) = {})
             => out'.op = "verify" /\ out'.status = 404
    /\ \A p \in Procs :
          verifyUserOtp_verifyOTP(p) =>
             /\ out'.op = "verify"
             /\ (verifyOTP(req[p].doc, req[p].otp, now).saved
                    /\ req[p].id \in DOMAIN approvals) => out'.status = 200
             /\ ~verifyOTP(req[p].doc, req[p].otp, now).saved
                    => out'.status \in 400..499

C16_VerifyStatusCodes == [][C16_Step]_vars

\* C17 as stated: rejectUser with an empty reason fails with "Rejection
\* reason is required" for every id, also for an id that has no record.
C17_ReasonCheckedFirst ==
    [][\A p \in Procs, id \in Ids :
          rejectUser_find(p, id, "")
          => out'.op = "reject" /\ out'.message = "Rejection reason is required"]_vars

\* C17 as amended: rejectUser looks the record up before it checks the
\* reason.  For an id that has no record it fails with "Pending user not
\* found" whatever the reason; with an empty reason it fails with "Rejection
\* reason is required" exactly for the ids that have a record; otherwise it
\* goes on to the notification.  Nothing is written.
C17_LookupBeforeReason ==
    [][\A p \in Procs, id \in Ids, reason \in Reasons :
          rejectUser_find(p, id, reason)
          => /\ approvals' = approvals
             /\ id \notin DOMAIN approvals =>
                   /\ req'[p].pc = "idle"
                   /\ out'.op = "reject" /\ out'.message = "Pending user not found"
             /\ (id \in DOMAIN approvals /\ reason = "") =>
                   /\ req'[p].pc = "idle"
                   /\ out'.op = "reject" /\ out'.message = "Rejection reason is required"
             /\ (id \in DOMAIN approvals /\ reason # "") =>
                   /\ req'[p].pc = "reject_notify" /\ out' = NoOut]_vars

C17_Witness ==
    /\ out.op = "reject" /\ out.message = "Pending user not found"
    /\ DOMAIN approvals # {} /\ Ids \ DOMAIN approvals # {}

\* C18: the codes sendOtpToEmail can generate are exactly OtpMin..OtpMax,
\* both ends included: every stored OTP is the hash of a code of that range,
\* and whenever sendOtpToEmail is about to run on an existing record every
\* code of the range is a possible outcome.
C18_ExactCodeRange ==
    /\ \A i \in DOMAIN approvals :
          approvals[i].otp # NoOtp =>
             \E c \in OtpCandidates :
                /\ OtpMin <= c /\ c <= OtpMax
                /\ bcryptCompare(toString(c), approvals[i].otp[1].code)
    /\ \A p \in Procs, c \in OtpCandidates :
          (OtpMin <= c /\ c <= OtpMax /\ req[p].id \in DOMAIN approvals) =>
             /\ req[p].pc = "reg_otp" => ENABLED registerUser_sendOtp(p, c)
             /\ req[p].pc = "resend_otp" => ENABLED resendOtp_sendOtp(p, c)

\* C19: in every reachable state, under every interleaving of resendOtp and
\* verifyUserOtp on the same record, a record with isVerified = true holds
\* no stored OTP.
C19_VerifiedHoldsNoOtp ==
    \A i \in DOMAIN approvals : approvals[i].isVerified => approvals[i].otp = NoOtp

\* C20 as stated: a record holds at most one OTP.  After resendOtp has
\* stored a new OTP, every code that matched the OTP stored before reports a
\* mismatch in verifyOTP and checkOtp and the expiry is the time of issue
\* plus OtpTTL; after a successful verifyOTP a further verifyOTP with the
\* same code fails with "No OTP pending for this user".
C20_OldStep ==
    /\ \A p \in Procs, code \in OtpCandidates :
          (/\ resendOtp_sendOtp(p, code)
           /\ req[p].id \in DOMAIN approvals
           /\ approvals[req[p].id].otp # NoOtp)
          => LET old == approvals[req[p].id]
                 new == approvals'[req[p].id]
             IN /\ Len(new.otp) = 1
                /\ new.otp[1].expiresAt = now + OtpTTL
                /\ \A c \in SuppliedCodes :
                      bcryptCompare(c, old.otp[1].code) =>
                         /\ verifyOTP(new, c, now').error = "OTP incorrect"
                         /\ ~checkOtp(new, c, now').result
    /\ \A p \in Procs :
          (verifyUserOtp_verifyOTP(p) /\ out'.status = 200)
          => verifyOTP(approvals'[req[p].id], req[p].otp, now').error
                = "No OTP pending for this user"

C20_OldCodeNeverVerifies == [][C20_OldStep]_vars

\* C20 as amended: a record holds at most one OTP.  After resendOtp has
\* stored a new OTP only the newly drawn code matches it: every supplied
\* code other than the new one and the bypass code "1" reports a mismatch in
\* verifyOTP and checkOtp (so the old code does, unless the same code was
\* drawn again), the new code verifies, and the expiry is the time of issue
\* plus OtpTTL; a successful verifyOTP leaves the record without an OTP, so
\* that a further verifyOTP of it with any code other than "1" fails with
\* "No OTP pending for this user".
C20_Step ==
    /\ \A p \in Procs, code \in OtpCandidates :
          (resendOtp_sendOtp(p, code) /\ req[p].id \in DOMAIN approvals)
          => LET new == approvals'[req[p].id]
             IN /\ Len(new.otp) = 1
                /\ new.otp[1].expiresAt = now + OtpTTL
                /\ bcryptCompare(toString(code), new.otp[1].code)
                /\ \A c \in SuppliedCodes \ {"1"} :
                      IF c = toString(code)
                      THEN /\ verifyOTP(new, c, now').saved
                           /\ checkOtp(new, c, now').result
                      ELSE /\ verifyOTP(new, c, now').error = "OTP incorrect"
                           /\ ~checkOtp(new, c, now').result
                           /\ checkOtp(new, c, now').error = ""
    /\ \A p \in Procs :
          (verifyUserOtp_verifyOTP(p) /\ out'.status = 200)
          => /\ approvals'[req[p].id].otp = NoOtp
             /\ \A c \in SuppliedCodes \ {"1"} :
                   /\ verifyOTP(approvals'[req[p].id], c, now').error
                         = "No OTP pending for this user"
                   /\ ~verifyOTP(approvals'[req[p].id], c, now').saved

C20_OnlyNewCodeVerifies == [][C20_Step]_vars

C20_Witness ==
    /\ out.op = "resend" /\ out.status = 200
    /\ now > 0
    /\ \E i \in DOMAIN approvals :
          /\ ~approvals[i].isVerified
          /\ approvals[i].otp # NoOtp
          /\ approvals[i].otp[1].expiresAt = now + OtpTTL
          /\ bcryptCompare(toString(OtpMax - 1), approvals[i].otp[1].code)
          /\ verifyOTP(approvals[i], toString(OtpMin), now).error = "OTP incorrect"
          /\ ~checkOtp(approvals[i], toString(OtpMin), now).result

====
